---- MODULE Spec2Model ----
(***************************************************************************)
(* The HTTP backends of the-kanji-game: backend/kanji.py (three grading    *)
(* endpoints that parse the model's JSON reply) and backend/yah.py (one    *)
(* grading endpoint that returns the reply whole, and two classification   *)
(* endpoints that extract a label from a raw chat-completions body).       *)
(*                                                                         *)
(* Every handler is an `async def` run on the server's single event-loop   *)
(* thread.  A handler occupies that thread from the moment it is resumed   *)
(* until it awaits or returns; llm.invoke and requests.post are plain      *)
(* synchronous calls, so the thread stays occupied while they wait.        *)
(***************************************************************************)
EXTENDS Integers, Sequences, FiniteSets, TLC

VARIABLES
    pc,      \* pc[r]: where request r's handler stands
    req,     \* req[r]: the endpoint and the parsed request body
    calls,   \* calls[r]: how often r's handler has invoked the model provider
    sent,    \* sent[r]: what the handler last passed to the provider
    reply,   \* reply[r]: what the provider answered
    resp,    \* resp[r]: the HTTP response of request r
    loop     \* the request whose handler occupies the event-loop thread, 0 if none

vars == <<pc, req, calls, sent, reply, resp, loop>>

---------------------------------------------------------------------------
(* Bounds of the model. *)

NumReq == 2          \* requests in flight together
MaxLen == 3          \* characters of a reply string
MaxParts == 2        \* parts of a list-valued content
B64MaxLen == 4       \* characters of an image_base64 payload

Requests == 1..NumReq

---------------------------------------------------------------------------
(* Python / JSON values.  Every value is tagged with its type, the way     *)
(* isinstance sees it: None/null, bool, int, str, list, dict.  A str is a  *)
(* sequence of characters.                                                 *)

None == [t |-> "null"]
Bool(b) == [t |-> "bool", v |-> b]
Num(n) == [t |-> "num", v |-> n]
Str(s) == [t |-> "str", v |-> s]
List(s) == [t |-> "list", v |-> s]
Dict(f) == [t |-> "dict", v |-> f]

EmptyDict == Dict(<<>>)

IsDict(x) == x.t = "dict"
IsStr(x) == x.t = "str"
IsList(x) == x.t = "list"

\* Python truth value: None, False, 0, "", [] and {} are falsy.
Truthy(x) ==
    CASE x.t = "null" -> FALSE
      [] x.t = "bool" -> x.v
      [] x.t = "num" -> x.v # 0
      [] x.t = "str" -> Len(x.v) > 0
      [] x.t = "list" -> Len(x.v) > 0
      [] x.t = "dict" -> DOMAIN x.v # {}
      [] OTHER -> TRUE

\* dict.get(key): the value, or None when the key is absent.
Get(d, key) == IF key \in DOMAIN d.v THEN d.v[key] ELSE None

\* x.get(key) on an arbitrary value: only a dict has .get (AttributeError otherwise).
HasGet(x) == IsDict(x)

---------------------------------------------------------------------------
(* str.strip: characters are removed from both ends while they belong to   *)
(* the given set; str.strip() with no argument removes whitespace.         *)

Whitespace == {" ", "\t"}
DoubleQuote == {"\""}

RECURSIVE LStrip(_, _)
LStrip(s, chars) ==
    IF s # <<>> /\ Head(s) \in chars THEN LStrip(Tail(s), chars) ELSE s

RECURSIVE RStrip(_, _)
RStrip(s, chars) ==
    IF s # <<>> /\ s[Len(s)] \in chars
    THEN RStrip(SubSeq(s, 1, Len(s) - 1), chars)
    ELSE s

Strip(s, chars) == RStrip(LStrip(s, chars), chars)

---------------------------------------------------------------------------
(* json.loads.  A str holding the model's reply is a sequence of lexical   *)
(* units: a punctuation mark, a literal, a quote, a whitespace character   *)
(* or a run of other characters.  The parser is the recursive descent of   *)
(* Python's json module: whitespace between tokens, one value, nothing     *)
(* after it.                                                               *)

Quote == "\""
JsonWs == {" ", "\t", "\n", "\r"}

ParseFail == [ok |-> FALSE, val |-> None, pos |-> 0]
Parsed(v, p) == [ok |-> TRUE, val |-> v, pos |-> p]

RECURSIVE SkipWs(_, _)
SkipWs(s, i) == IF i <= Len(s) /\ s[i] \in JsonWs THEN SkipWs(s, i + 1) ELSE i

\* The index of the next quote at or after i, 0 when there is none.
RECURSIVE CloseQuote(_, _)
CloseQuote(s, i) ==
    IF i > Len(s) THEN 0 ELSE IF s[i] = Quote THEN i ELSE CloseQuote(s, i + 1)

RECURSIVE Join(_)
Join(s) == IF s = <<>> THEN "" ELSE Head(s) \o Join(Tail(s))

\* s[i] is an opening quote.
ParseString(s, i) ==
    LET j == CloseQuote(s, i + 1)
    IN  IF j = 0 THEN ParseFail ELSE Parsed(Str(SubSeq(s, i + 1, j - 1)), j + 1)

RECURSIVE ParseValue(_, _)
RECURSIVE ParseElements(_, _, _)
RECURSIVE ParseMembers(_, _, _)

ParseValue(s, i) ==
    IF i > Len(s) THEN ParseFail
    ELSE CASE s[i] = Quote -> ParseString(s, i)
           [] s[i] = "{" ->
                LET j == SkipWs(s, i + 1)
                IN  IF j <= Len(s) /\ s[j] = "}"
                    THEN Parsed(EmptyDict, j + 1)
                    ELSE ParseMembers(s, j, <<>>)
           [] s[i] = "[" ->
                LET j == SkipWs(s, i + 1)
                IN  IF j <= Len(s) /\ s[j] = "]"
                    THEN Parsed(List(<<>>), j + 1)
                    ELSE ParseElements(s, j, <<>>)
           [] s[i] = "true" -> Parsed(Bool(TRUE), i + 1)
           [] s[i] = "false" -> Parsed(Bool(FALSE), i + 1)
           [] s[i] = "null" -> Parsed(None, i + 1)
           [] s[i] = "1" -> Parsed(Num(1), i + 1)
           [] OTHER -> ParseFail

\* The elements of an array after "[" (or after a comma), acc those read so far.
ParseElements(s, i, acc) ==
    LET e == ParseValue(s, i)
        j == SkipWs(s, e.pos)
    IN  IF ~e.ok \/ j > Len(s) THEN ParseFail
        ELSE IF s[j] = "]" THEN Parsed(List(Append(acc, e.val)), j + 1)
        ELSE IF s[j] = "," THEN ParseElements(s, SkipWs(s, j + 1), Append(acc, e.val))
        ELSE ParseFail

\* The members of an object after "{" (or after a comma), acc those read so
\* far; a repeated key keeps its last value.
ParseMembers(s, i, acc) ==
    IF i > Len(s) \/ s[i] # Quote THEN ParseFail
    ELSE
      LET k == ParseString(s, i)
          c == SkipWs(s, k.pos)
      IN  IF ~k.ok \/ c > Len(s) \/ s[c] # ":" THEN ParseFail
          ELSE
            LET e == ParseValue(s, SkipWs(s, c + 1))
                j == SkipWs(s, e.pos)
                key == Join(k.val.v)
                acc2 == [x \in DOMAIN acc \cup {key} |->
                            IF x = key THEN e.val ELSE acc[x]]
            IN  IF ~e.ok \/ j > Len(s) THEN ParseFail
                ELSE IF s[j] = "}" THEN Parsed(Dict(acc2), j + 1)
                ELSE IF s[j] = "," THEN ParseMembers(s, SkipWs(s, j + 1), acc2)
                ELSE ParseFail

\* json.loads(s): [ok |-> FALSE] stands for the JSONDecodeError it raises.
JsonLoads(s) ==
    LET v == ParseValue(s, SkipWs(s, 1))
    IN  IF v.ok /\ SkipWs(s, v.pos) = Len(s) + 1 THEN v ELSE ParseFail

---------------------------------------------------------------------------
(* str(x), as an f-string and the label fallback render a value.           *)

RECURSIVE SetToSeq(_)
SetToSeq(S) ==
    IF S = {} THEN <<>>
    ELSE LET x == CHOOSE y \in S : TRUE IN <<x>> \o SetToSeq(S \ {x})

\* repr(x), as str() renders the items of a list or a dict.  The model's
\* dict keeps no insertion order; the keys are rendered in a fixed one.
RECURSIVE PyRepr(_)
RECURSIVE ReprItems(_)
RECURSIVE ReprPairs(_, _)

PyRepr(x) ==
    CASE x.t = "null" -> "None"
      [] x.t = "bool" -> IF x.v THEN "True" ELSE "False"
      [] x.t = "num" -> ToString(x.v)
      [] x.t = "str" -> "'" \o Join(x.v) \o "'"
      [] x.t = "list" -> "[" \o ReprItems(x.v) \o "]"
      [] x.t = "dict" -> "{" \o ReprPairs(x.v, SetToSeq(DOMAIN x.v)) \o "}"
      [] OTHER -> "?"

ReprItems(s) ==
    IF s = <<>> THEN ""
    ELSE IF Len(s) = 1 THEN PyRepr(s[1])
    ELSE PyRepr(s[1]) \o ", " \o ReprItems(Tail(s))

ReprPairs(f, keys) ==
    IF keys = <<>> THEN ""
    ELSE LET one == "'" \o keys[1] \o "': " \o PyRepr(f[keys[1]])
         IN  IF Len(keys) = 1 THEN one ELSE one \o ", " \o ReprPairs(f, Tail(keys))

\* str(x): a str is itself, anything else its repr.
PyStr(x) == IF IsStr(x) THEN x ELSE Str(<<PyRepr(x)>>)

---------------------------------------------------------------------------
(* HTTP responses.  An HTTPException(status_code, detail) and an exception *)
(* no handler catches (the server answers 500 Internal Server Error) are   *)
(* both responses without a body.                                          *)

Ok200(body) == [status |-> 200, detail |-> "", body |-> body]
HTTPException(status, detail) == [status |-> status, detail |-> detail, body |-> None]
Unhandled == [status |-> 500, detail |-> "Internal Server Error", body |-> None]

---------------------------------------------------------------------------
(* Provider outcomes.  llm.invoke either raises or returns a message with  *)
(* a content; requests.post either raises or returns a status, and the     *)
(* body it carries either decodes as JSON (resp.json()) or does not.       *)

Raises == [kind |-> "raise", status |-> 0, isjson |-> FALSE, content |-> None]
Message(content) == [kind |-> "message", status |-> 200, isjson |-> FALSE, content |-> content]
HttpJson(status, body) == [kind |-> "http", status |-> status, isjson |-> TRUE, content |-> body]
HttpText(status) == [kind |-> "http", status |-> status, isjson |-> FALSE, content |-> None]

---------------------------------------------------------------------------
(* backend/kanji.py: the three grading endpoints.                          *)

KanjiEndpoints == {"kanji.grade_kanji", "kanji.grade_katakana", "kanji.grade_hiragana"}
GradeEndpoints == KanjiEndpoints \cup {"yah.grade_kanji"}
ClassifyEndpoints == {"yah.classify", "yah.classify_url"}

\* `if not target_word or not image_b64`
MissingFields_And(data) ==
    ~Truthy(Get(data, "target_word")) /\ ~Truthy(Get(data, "image"))

MissingFields(data) ==
    ~Truthy(Get(data, "target_word")) \/ ~Truthy(Get(data, "image"))

\* detail of the 400 each endpoint raises
MissingDetail(ep) ==
    IF ep \in {"kanji.grade_kanji", "yah.grade_kanji"}
    THEN "Missing word or image"
    ELSE "Missing word"

\* f"data:image/png;base64,{image_b64}"
PngDataUrl(image_b64) == Str(<<"data:image/png;base64,">> \o PyStr(image_b64).v)

ImagePart(url) ==
    Dict([type |-> Str(<<"image_url">>), image_url |-> Dict([url |-> url])])

TextPart(text) == Dict([type |-> Str(<<"text">>), text |-> text])

\* The prompt of each grading endpoint, with the target word formatted in.
JudgePrompt(ep, target_word) ==
    Str(<<CASE ep = "kanji.grade_kanji" -> "You are a friendly and lenient Kanji handwriting judge. Target English word: "
            [] ep = "kanji.grade_katakana" -> "You are a friendly and lenient Katakana handwriting judge. Target English word: "
            [] ep = "kanji.grade_hiragana" -> "You are a friendly and lenient Hiragana handwriting judge. Target English word: "
            [] OTHER -> "You are a Kanji handwriting judge. The target word is: ">>
        \o PyStr(target_word).v)

\* What the handler passes to llm.invoke: kanji.py one HumanMessage whose
\* content is [text part, image part]; yah.py the two parts themselves.
GradeMessage(ep, data) ==
    LET parts == <<TextPart(JudgePrompt(ep, Get(data, "target_word"))),
                   ImagePart(PngDataUrl(Get(data, "image")))>>
    IN  IF ep \in KanjiEndpoints
        THEN List(<<Dict([role |-> Str(<<"human">>), content |-> List(parts)])>>)
        ELSE List(parts)

\* The keys of the dict each endpoint returns.
ResponseKeys(ep) ==
    CASE ep = "kanji.grade_kanji" ->
            {"correct", "kanji_detected", "kanji_correct", "pronouce_in_romanji",
             "pronouce_in_hiragana", "similarity", "reason"}
      [] ep = "kanji.grade_katakana" ->
            {"correct", "katakana_detected", "katakana_correct", "similarity", "reason"}
      [] ep = "kanji.grade_hiragana" ->
            {"correct", "hiragana_detected", "hiragana_correct", "similarity", "reason"}
      [] OTHER -> {}

\* The returned dict: every key read with parsed.get(key).
GradeBody(ep, parsed) == Dict([k \in ResponseKeys(ep) |-> Get(parsed, k)])

\* Mutant: a reply that does not parse is coerced into an all-null result.
GradeResponse_Coerce(ep, out) ==
    IF out.kind = "raise" \/ ~IsStr(out.content) THEN Unhandled
    ELSE LET p == JsonLoads(Strip(out.content.v, Whitespace))
         IN  IF ~p.ok THEN Ok200(GradeBody(ep, EmptyDict))
             ELSE IF ~HasGet(p.val) THEN Unhandled
             ELSE Ok200(GradeBody(ep, p.val))

\* Mutant: only the keys the reply carries are returned.
GradeResponse_Sparse(ep, out) ==
    IF out.kind = "raise" \/ ~IsStr(out.content) THEN Unhandled
    ELSE LET p == JsonLoads(Strip(out.content.v, Whitespace))
         IN  IF ~p.ok THEN HTTPException(500, "Model reutrned invalid JSON")
             ELSE IF ~HasGet(p.val) THEN Unhandled
             ELSE Ok200(Dict([k \in ResponseKeys(ep) \cap DOMAIN p.val.v |-> p.val.v[k]]))

\* kanji.py after llm.invoke: result.content.strip(), json.loads inside the
\* try, then the dict of parsed.get values.  llm.invoke raising, content
\* without .strip and a parsed value without .get are exceptions nothing
\* catches.
GradeResponse(ep, out) ==
    IF out.kind = "raise" \/ ~IsStr(out.content) THEN Unhandled
    ELSE LET p == JsonLoads(Strip(out.content.v, Whitespace))
         IN  IF ~p.ok THEN HTTPException(500, "Model reutrned invalid JSON")
             ELSE IF ~HasGet(p.val) THEN Unhandled
             ELSE Ok200(GradeBody(ep, p.val))

\* yah.py's /grade-kanji returns the reply whole: {"result": response}.
YahGradeResponse(out) ==
    IF out.kind = "raise" THEN Unhandled
    ELSE Ok200(Dict([result |-> Dict([content |-> out.content])]))

---------------------------------------------------------------------------
(* base64.  b64decode(s) with validate left False is binascii.a2b_base64:  *)
(* characters outside the alphabet are skipped, a pad counts only once two *)
(* characters of a quad are read, decoding stops at a completed pad run,   *)
(* and input that ends inside a quad raises binascii.Error.                *)

B64Alphabet ==
    <<
      "A", "B", "C", "D", "E", "F", "G", "H", "I", "J", "K", "L", "M", "N", "O", "P",
      "Q", "R", "S", "T", "U", "V", "W", "X", "Y", "Z", "a", "b", "c", "d", "e", "f",
      "g", "h", "i", "j", "k", "l", "m", "n", "o", "p", "q", "r", "s", "t", "u", "v",
      "w", "x", "y", "z", "0", "1", "2", "3", "4", "5", "6", "7", "8", "9", "+", "/"
    >>

B64Pad == "="
IsB64Char(c) == \E i \in 1..Len(B64Alphabet) : B64Alphabet[i] = c
B64Value(c) == (CHOOSE i \in 1..Len(B64Alphabet) : B64Alphabet[i] = c) - 1

Bytes(b) == [t |-> "bytes", v |-> b]
B64Error == [ok |-> FALSE, bytes |-> <<>>]
B64Ok(out) == [ok |-> TRUE, bytes |-> out]

RECURSIVE A2B(_, _, _, _, _, _)
A2B(s, i, quad, left, pads, out) ==
    IF i > Len(s) THEN (IF quad # 0 THEN B64Error ELSE B64Ok(out))
    ELSE IF s[i] = B64Pad THEN
        IF quad >= 2 /\ quad + pads + 1 >= 4 THEN B64Ok(out)
        ELSE A2B(s, i + 1, quad, left, IF quad >= 2 THEN pads + 1 ELSE pads, out)
    ELSE IF ~IsB64Char(s[i]) THEN A2B(s, i + 1, quad, left, pads, out)
    ELSE LET v == B64Value(s[i])
         IN  CASE quad = 0 -> A2B(s, i + 1, 1, v, 0, out)
               [] quad = 1 ->
                    A2B(s, i + 1, 2, v % 16, 0, Append(out, ((left * 4) + (v \div 16)) % 256))
               [] quad = 2 ->
                    A2B(s, i + 1, 3, v % 4, 0, Append(out, ((left * 16) + (v \div 4)) % 256))
               [] OTHER ->
                    A2B(s, i + 1, 0, 0, 0, Append(out, ((left * 64) + v) % 256))

\* base64.b64decode(s)
B64Decode(s) == A2B(s, 1, 0, 0, 0, <<>>)

\* base64.b64encode(b).decode(): three bytes to four characters, the last
\* group padded.
RECURSIVE B64Encode(_)
B64Encode(b) ==
    IF b = <<>> THEN <<>>
    ELSE IF Len(b) = 1 THEN
        <<B64Alphabet[(b[1] \div 4) + 1], B64Alphabet[((b[1] % 4) * 16) + 1], B64Pad, B64Pad>>
    ELSE IF Len(b) = 2 THEN
        <<B64Alphabet[(b[1] \div 4) + 1],
          B64Alphabet[((b[1] % 4) * 16) + (b[2] \div 16) + 1],
          B64Alphabet[((b[2] % 16) * 4) + 1], B64Pad>>
    ELSE
        <<B64Alphabet[(b[1] \div 4) + 1],
          B64Alphabet[((b[1] % 4) * 16) + (b[2] \div 16) + 1],
          B64Alphabet[((b[2] % 16) * 4) + (b[3] \div 64) + 1],
          B64Alphabet[(b[3] % 64) + 1]>>
        \o B64Encode(SubSeq(b, 4, Len(b)))

---------------------------------------------------------------------------
(* backend/yah.py: image_bytes_to_data_url.                                *)

\* mimetypes.guess_type(filename)[0]: by the file name's extension, the last
\* run of the name; None when it is not a known one.
GuessType(filename) ==
    LET ext == filename.v[Len(filename.v)]
    IN  CASE ext = ".png" -> Str(<<"image/png">>)
          [] ext = ".jpg" -> Str(<<"image/jpeg">>)
          [] ext = ".txt" -> Str(<<"text/plain">>)
          [] OTHER -> None

\* Image.open(BytesIO(b)).format.lower(): the format the leading bytes
\* announce; None stands for the exception PIL raises on anything else.
ImageFormat(b) ==
    IF Len(b) >= 2 /\ SubSeq(b, 1, 2) = <<137, 80>> THEN Str(<<"png">>)
    ELSE IF Len(b) >= 2 /\ SubSeq(b, 1, 2) = <<255, 216>> THEN Str(<<"jpeg">>)
    ELSE None

image_bytes_to_data_url(bytes_data, filename) ==
    LET guessed == IF Truthy(filename) THEN GuessType(filename) ELSE None
        fmt == ImageFormat(bytes_data.v)
        mime == IF Truthy(guessed) THEN guessed.v
                ELSE IF fmt # None THEN <<"image/">> \o fmt.v
                ELSE <<"image/jpeg">>
    IN  Str(<<"data:">> \o mime \o <<";base64,">> \o B64Encode(bytes_data.v))

---------------------------------------------------------------------------
(* backend/yah.py: call_vllm_chat_completion.                              *)

MODEL_NAME == Str(<<"MODEL_NAME">>)

\* Mutant: the prompt and the temperature passed in are the ones sent.
VllmPayload_UsesArgs(data_url, prompt_text, temperature) ==
    Dict([model |-> MODEL_NAME,
          messages |-> List(<<
              Dict([role |-> Str(<<"user">>),
                    content |-> List(<<ImagePart(data_url), TextPart(prompt_text)>>)])>>),
          temperature |-> temperature])

\* The payload posted to the provider.
VllmPayload(data_url, prompt_text, temperature) ==
    Dict([model |-> MODEL_NAME,
          messages |-> List(<<
              Dict([role |-> Str(<<"user">>),
                    content |-> List(<<ImagePart(data_url),
                                       TextPart(Str(<<"Classify this image.">>))>>)])>>),
          temperature |-> Num(0)])

\* The prompt both classification handlers pass.
ClassifyPrompt ==
    Str(<<"Classify this image in ONE short label (single word or short phrase). Return only the label.">>)

\* The outcome of call_vllm_chat_completion: "return" with resp.json(),
\* "http" for the HTTPException(502) of a status other than 200, "error"
\* for any other exception (requests.post raising, resp.json() raising).
RetBody(body) == [kind |-> "return", body |-> body]
RetHttp502 == [kind |-> "http", body |-> None]
RetError == [kind |-> "error", body |-> None]

call_vllm_chat_completion(out) ==
    IF out.kind = "raise" THEN RetError
    ELSE IF out.status # 200 THEN RetHttp502
    ELSE IF ~out.isjson THEN RetError
    ELSE RetBody(out.content)

---------------------------------------------------------------------------
(* backend/yah.py: the label extraction of /classify and /classify_url.    *)

Raised == [exc |-> TRUE, label |-> None]
Label(l) == [exc |-> FALSE, label |-> l]

\* `c.get("type") in ("output_text", "text")`
IsTextType_TextOnly(ty) == IsStr(ty) /\ Join(ty.v) = "text"

IsTextType(ty) == IsStr(ty) /\ Join(ty.v) \in {"output_text", "text"}

\* The for loop over a list content, from part i on: the text of the first
\* part of a text type; c.get on a part that is no dict raises.
RECURSIVE ScanParts(_, _)
ScanParts(parts, i) ==
    IF i > Len(parts) THEN Label(None)
    ELSE IF ~HasGet(parts[i]) THEN Raised
    ELSE IF IsTextType(Get(parts[i], "type")) THEN Label(Get(parts[i], "text"))
    ELSE ScanParts(parts, i + 1)

\* content.strip().strip('"')
StripLabel(s) == Strip(Strip(s, Whitespace), DoubleQuote)

\* The body of the try block: what it assigns to label, or that it raised.
ExtractRaw(vllm_resp) ==
    IF ~HasGet(vllm_resp) THEN Raised
    ELSE
      LET choices == Get(vllm_resp, "choices")
      IN  IF ~Truthy(choices) THEN Label(None)
          ELSE IF choices.t \in {"num", "bool"} THEN Raised     \* len() of a number
          ELSE IF choices.t # "list" THEN Raised                \* {...}[0], "abc"[0].get
          ELSE IF ~HasGet(choices.v[1]) THEN Raised
          ELSE
            LET first == choices.v[1]
                message == Get(first, "message")
                msg == IF Truthy(message) THEN message ELSE first
                content == IF IsDict(msg) THEN Get(msg, "content") ELSE None
            IN  IF IsStr(content) THEN Label(Str(StripLabel(content.v)))
                ELSE IF IsList(content) THEN ScanParts(content.v, 1)
                ELSE Label(PyStr(msg))

\* Mutant: no try/except around the extraction.
ClassifyResponse_NoCatch(vllm_resp) ==
    LET x == ExtractRaw(vllm_resp)
    IN  IF x.exc THEN Unhandled
        ELSE Ok200(Dict([vllm_raw |-> vllm_resp, label |-> x.label]))

\* label = None; try: ... except Exception: label = None; then the
\* JSONResponse of the raw body and the label.
ClassifyResponse(vllm_resp) ==
    LET x == ExtractRaw(vllm_resp)
    IN  Ok200(Dict([vllm_raw |-> vllm_resp,
                    label |-> IF x.exc THEN None ELSE x.label]))

\* /classify after call_vllm_chat_completion: an HTTPException is raised
\* again as it is, any other exception becomes a 500.
ClassifyAfterCall(out) ==
    LET ret == call_vllm_chat_completion(out)
    IN  CASE ret.kind = "http" -> HTTPException(502, "upstream status")
          [] ret.kind = "error" -> HTTPException(500, "str(e)")
          [] OTHER -> ClassifyResponse(ret.body)

\* /classify_url: `except Exception` catches the HTTPException too.
ClassifyUrlAfterCall(out) ==
    LET ret == call_vllm_chat_completion(out)
    IN  IF ret.kind \in {"http", "error"} THEN HTTPException(500, "str(e)")
        ELSE ClassifyResponse(ret.body)

---------------------------------------------------------------------------
(* The state machine: requests on the event loop.                          *)

NoReq == [endpoint |-> "", data |-> None]
NoReply == [kind |-> "none", status |-> 0, isjson |-> FALSE, content |-> None]
NoResp == [status |-> 0, detail |-> "", body |-> None]

Init ==
    /\ pc = [r \in Requests |-> "idle"]
    /\ req = [r \in Requests |-> NoReq]
    /\ calls = [r \in Requests |-> 0]
    /\ sent = [r \in Requests |-> None]
    /\ reply = [r \in Requests |-> NoReply]
    /\ resp = [r \in Requests |-> NoResp]
    /\ loop = 0

\* The event-loop thread is free to resume a handler.
LoopFree == loop = 0

\* A request reaches the server; its handler is scheduled on the loop.
Arrive(r, inputs) ==
    /\ pc[r] = "idle"
    /\ \E q \in inputs : req' = [req EXCEPT ![r] = q]
    /\ pc' = [pc EXCEPT ![r] = "ready"]
    /\ UNCHANGED <<calls, sent, reply, resp, loop>>

\* The handler raises (or returns) without having called the provider.
Respond(r, response) ==
    /\ resp' = [resp EXCEPT ![r] = response]
    /\ pc' = [pc EXCEPT ![r] = "done"]
    /\ loop' = 0
    /\ UNCHANGED <<req, calls, sent, reply>>

\* The handler enters its provider call: llm.invoke(...) or requests.post(...).
\* Both are synchronous calls made on the event-loop thread, which the
\* handler keeps until the call returns.
CallProvider(r, message) ==
    /\ sent' = [sent EXCEPT ![r] = message]
    /\ calls' = [calls EXCEPT ![r] = @ + 1]
    /\ pc' = [pc EXCEPT ![r] = "provider"]
    /\ loop' = r
    /\ UNCHANGED <<req, reply, resp>>

\* data_url to the provider, as both classification handlers call it.
CallVllm(r, data_url) ==
    CallProvider(r, VllmPayload(data_url, ClassifyPrompt, Num(0)))

\* The handler of a grading endpoint up to llm.invoke.
StartGrade(r) ==
    LET ep == req[r].endpoint
        data == req[r].data
    IN  IF MissingFields(data)
        THEN Respond(r, HTTPException(400, MissingDetail(ep)))
        ELSE CallProvider(r, GradeMessage(ep, data))

\* classify_image up to its first await or its provider call.
StartClassify(r) ==
    LET file == Get(req[r].data, "file")
        payload == Get(req[r].data, "payload")
    IN  IF file = None /\ payload = None
        THEN Respond(r, HTTPException(400,
                 "Provide either an uploaded file or JSON with image_base64"))
        ELSE IF file # None
        THEN \* contents = await file.read(): the handler yields the loop
             /\ pc' = [pc EXCEPT ![r] = "reading"]
             /\ UNCHANGED <<req, calls, sent, reply, resp, loop>>
        ELSE LET dec == B64Decode(Get(payload, "image_base64").v)
             IN  IF ~dec.ok
                 THEN Respond(r, HTTPException(400, "Invalid base64 payload"))
                 ELSE CallVllm(r, image_bytes_to_data_url(Bytes(dec.bytes), None))

\* classify_url up to its provider call.
StartClassifyUrl(r) == CallVllm(r, Get(req[r].data, "image_url"))

\* The loop resumes the scheduled handler of request r.
Start(r) ==
    /\ pc[r] = "ready"
    /\ LoopFree
    /\ CASE req[r].endpoint \in GradeEndpoints -> StartGrade(r)
         [] req[r].endpoint = "yah.classify" -> StartClassify(r)
         [] OTHER -> StartClassifyUrl(r)

\* file.read() has completed and the loop resumes classify_image.
ReadDone(r) ==
    /\ pc[r] = "reading"
    /\ LoopFree
    /\ LET file == Get(req[r].data, "file")
       IN  CallVllm(r, image_bytes_to_data_url(Get(file, "contents"),
                                               Get(file, "filename")))

\* The response a handler builds from the provider's outcome.
AfterCall(ep, out) ==
    CASE ep \in KanjiEndpoints -> GradeResponse(ep, out)
      [] ep = "yah.grade_kanji" -> YahGradeResponse(out)
      [] ep = "yah.classify" -> ClassifyAfterCall(out)
      [] OTHER -> ClassifyUrlAfterCall(out)

\* The outcomes among `outcomes` the provider call of endpoint ep can have.
OutcomesFor(ep, outcomes) ==
    {o \in outcomes : o.kind = "raise"
                      \/ o.kind = (IF ep \in GradeEndpoints THEN "message" ELSE "http")}

\* The provider call returns (or raises) and the handler runs to its end.
ProviderReturns(r, outcomes) ==
    /\ pc[r] = "provider"
    /\ \E out \in OutcomesFor(req[r].endpoint, outcomes) :
        /\ reply' = [reply EXCEPT ![r] = out]
        /\ resp' = [resp EXCEPT ![r] = AfterCall(req[r].endpoint, out)]
    /\ pc' = [pc EXCEPT ![r] = "done"]
    /\ loop' = 0
    /\ UNCHANGED <<req, calls, sent>>

---------------------------------------------------------------------------
(* Request bodies.                                                         *)

Request(ep, data) == [endpoint |-> ep, data |-> data]

\* A field of a JSON body: left out, null, the empty string, or given.
FieldChoices == {"absent", "null", "empty", "given"}

Field(key, choice, value) ==
    CASE choice = "absent" -> <<>>
      [] choice = "null" -> key :> None
      [] choice = "empty" -> key :> Str(<<>>)
      [] OTHER -> key :> value

GradeData(w, i) ==
    Dict(Field("target_word", w, Str(<<"water">>))
         @@ Field("image", i, Str(<<"iVBORw0KGgo=">>)))

GradeInputs ==
    {Request(ep, GradeData(w, i)) : ep \in GradeEndpoints, w \in FieldChoices, i \in FieldChoices}

\* Every sequence over S of length at most n.
SeqsUpTo(S, n) == UNION {[1..k -> S] : k \in 0..n}

File(filename, contents) == Dict([filename |-> filename, contents |-> Bytes(contents)])
Payload(image_base64) == Dict([image_base64 |-> Str(image_base64)])

FileNames == {None, Str(<<>>), Str(<<"cat", ".png">>), Str(<<"cat", ".jpg">>),
              Str(<<"notes", ".txt">>), Str(<<"scan">>)}
FileContents == {<<>>, <<137, 80, 78>>, <<255, 216, 255>>, <<0, 16, 131>>}
Files == {File(n, c) : n \in FileNames, c \in FileContents}

B64Chars == {"A", "/", "=", "!"}
Payloads == {Payload(s) : s \in SeqsUpTo(B64Chars, B64MaxLen)}

ClassifyData(file, payload) ==
    Dict((IF file = None THEN <<>> ELSE "file" :> file)
         @@ (IF payload = None THEN <<>> ELSE "payload" :> payload))

UrlData(url) == Dict([image_url |-> Str(url)])

\* /classify with a file, with a payload, with both (one case) or neither,
\* and /classify_url.
UploadInputs ==
    {Request("yah.classify", ClassifyData(f, None)) : f \in Files}
    \cup {Request("yah.classify", ClassifyData(None, p)) : p \in Payloads}
    \cup {Request("yah.classify", ClassifyData(None, None)),
          Request("yah.classify",
                  ClassifyData(File(Str(<<"cat", ".png">>), <<137, 80, 78>>),
                               Payload(<<"!">>))),
          Request("yah.classify_url", UrlData(<<"https://example.org/cat.png">>)),
          Request("yah.classify_url", UrlData(<<>>))}

\* A few requests of every endpoint.
CoreInputs ==
    {Request(ep, GradeData(w, "given")) : ep \in GradeEndpoints, w \in {"absent", "given"}}
    \cup {Request("yah.classify", ClassifyData(None, None)),
          Request("yah.classify", ClassifyData(None, Payload(<<"A", "A", "A", "A">>))),
          Request("yah.classify", ClassifyData(None, Payload(<<"A">>))),
          Request("yah.classify", ClassifyData(File(Str(<<"cat", ".png">>), <<137, 80, 78>>), None)),
          Request("yah.classify_url", UrlData(<<"https://example.org/cat.png">>))}

ClassifyInputs ==
    {q \in CoreInputs : q.endpoint \in ClassifyEndpoints}

---------------------------------------------------------------------------
(* Replies of the model to a grading prompt.                               *)

\* The tokens of a JSON string literal.
Lit(word) == <<Quote, word, Quote>>

\* Keys a reply object may carry: those the endpoints read and one more.
ReplyKeys ==
    {"correct", "reason", "similarity", "kanji_correct", "kanji_detected",
     "pronouce_in_romanji", "katakana_correct", "hiragana_detected", "note"}

\* The tokens of the value written for a key; variant 2 differs in each.
ValueTokens(key, variant) ==
    CASE key = "correct" -> IF variant = 1 THEN <<"true">> ELSE <<"false">>
      [] key = "similarity" -> IF variant = 1 THEN <<"1">> ELSE <<"null">>
      [] key = "reason" -> IF variant = 1 THEN Lit("close match") ELSE <<Quote, "too", " ", "wide", Quote>>
      [] OTHER -> IF variant = 1 THEN Lit("sui") ELSE Lit("ki")

\* The value json.loads yields for those tokens.
ValueOf(key, variant) ==
    CASE key = "correct" -> Bool(variant = 1)
      [] key = "similarity" -> IF variant = 1 THEN Num(1) ELSE None
      [] key = "reason" -> IF variant = 1 THEN Str(<<"close match">>) ELSE Str(<<"too", " ", "wide">>)
      [] OTHER -> IF variant = 1 THEN Str(<<"sui">>) ELSE Str(<<"ki">>)

RECURSIVE MemberTokens(_, _)
MemberTokens(keys, variant) ==
    IF keys = <<>> THEN <<>>
    ELSE Lit(keys[1]) \o <<":", " ">> \o ValueTokens(keys[1], variant)
         \o (IF Len(keys) = 1 THEN <<>> ELSE <<",", " ">> \o MemberTokens(Tail(keys), variant))

\* The text of a JSON object with the given keys.
ObjectText(keys, variant) == <<"{">> \o MemberTokens(SetToSeq(keys), variant) \o <<"}">>

ObjectTexts == {ObjectText(K, v) : K \in SUBSET ReplyKeys, v \in {1, 2}}

\* Replies that are JSON but no object.
NonObjectTexts ==
    {<<"[", "]">>, <<"[", "true", ",", " ", "1", "]">>, <<"true">>, <<"null">>, <<"1">>,
     Lit("sui"), <<"[", "{", "}", "]">>}

\* Replies that are not JSON.
NonJsonTexts ==
    {<<>>, <<" ">>, <<"Sure!">>, <<"Here is my verdict:", "\n", "{", "}">>,
     <<"{", Quote, "correct", Quote, ":", "true">>,
     <<"{", Quote, "correct", Quote, ":", "true", ",", "}">>,
     <<"{", "correct", ":", "true", "}">>,
     <<"{", "}", "{", "}">>, <<"[", "true", ",", "]">>, <<Quote, "sui">>,
     <<"{", Quote, "correct", Quote, "true", "}">>}

\* An object reply wrapped in whitespace.
PaddedTexts ==
    {<<" ", "\n">> \o ObjectText({"correct", "reason"}, 1) \o <<"\n">>,
     <<"\t">> \o ObjectText({}, 1) \o <<" ">>}

GradeOutcomes ==
    {Raises}
    \cup {Message(Str(t)) : t \in ObjectTexts \cup NonObjectTexts \cup NonJsonTexts \cup PaddedTexts}
    \cup {Message(List(<<TextPart(Str(ObjectText({"correct"}, 1)))>>)), Message(None)}

CoreGradeOutcomes ==
    {Raises, Message(Str(<<"Sure!">>)),
     Message(Str(ObjectText({"correct", "kanji_correct", "kanji_detected", "reason"}, 1)))}

---------------------------------------------------------------------------
(* Chat-completions bodies the provider may answer /classify with.         *)

\* Characters of a string content: whitespace, the two quote characters, a letter.
Chars == {" ", Quote, "'", "a"}
StringContents == {Str(s) : s \in SeqsUpTo(Chars, MaxLen)}

\* A part of a list content: an object with or without a type and a text,
\* or an element that is no object at all.
PartTypes == {"absent", "text", "output_text", "image_url"}
PartTexts == {"absent", "cat", "dog"}

Part(ty, tx) ==
    Dict((IF ty = "absent" THEN <<>> ELSE "type" :> Str(<<ty>>))
         @@ (IF tx = "absent" THEN <<>> ELSE "text" :> Str(<<tx>>)))

TypedParts == {Part(ty, tx) : ty \in PartTypes, tx \in PartTexts}
Parts == TypedParts \cup {Str(<<"a">>)}
ListContents == {List(s) : s \in SeqsUpTo(Parts, MaxParts)}

OtherContents == {None, Num(1), Dict([text |-> Str(<<"cat">>)])}

Contents == StringContents \cup ListContents \cup OtherContents

Choice(c) == Dict([message |-> Dict([role |-> Str(<<"assistant">>), content |-> c])])

\* {"choices": [{"message": {"content": c}}]}
ChatBody(c) == Dict([choices |-> List(<<Choice(c)>>)])

\* The same with a second choice after the first.
TwoChoiceBody(c) == Dict([choices |-> List(<<Choice(c), Choice(Str(<<"a", "a">>))>>)])

\* A first choice without a message, carrying the content itself.
BareChoiceBody(c) == Dict([choices |-> List(<<Dict([content |-> c])>>)])

\* Bodies of other shapes: no object, no choices, choices that are no
\* list, a first choice that is no object, a message that is no object.
OddChoices ==
    {None, List(<<>>), Str(<<>>), Str(<<"a">>), Num(0), Num(1), Bool(TRUE),
     EmptyDict, Dict([first |-> Choice(Str(<<"a">>))]),
     List(<<Str(<<"a">>)>>), List(<<None>>), List(<<EmptyDict>>),
     List(<<Dict([message |-> Str(<<"a">>)])>>),
     List(<<Dict([message |-> Num(1)])>>),
     List(<<Dict([message |-> List(<<Str(<<"a">>)>>)])>>),
     List(<<Dict([message |-> EmptyDict, content |-> Str(<<" ", "a">>)])>>),
     List(<<Dict([message |-> Dict([role |-> Str(<<"assistant">>)])])>>)}

OddBodies ==
    {None, List(<<>>), List(<<ChatBody(Str(<<"a">>))>>), Str(<<"a">>), Num(1), EmptyDict,
     Dict([error |-> Str(<<"overloaded">>)])}
    \cup {Dict([choices |-> c]) : c \in OddChoices}

Bodies ==
    {ChatBody(c) : c \in Contents}
    \cup {TwoChoiceBody(c) : c \in Contents}
    \cup {BareChoiceBody(c) : c \in Contents}
    \cup OddBodies

ClassifyOutcomes ==
    {Raises, HttpText(200), HttpText(503), HttpJson(503, Dict([error |-> Str(<<"overloaded">>)]))}
    \cup {HttpJson(200, b) : b \in Bodies}

CoreClassifyOutcomes ==
    {Raises, HttpText(200), HttpJson(503, Dict([error |-> Str(<<"overloaded">>)])),
     HttpJson(200, ChatBody(Str(<<"a">>))), HttpJson(200, Dict([choices |-> List(<<>>)]))}

CoreOutcomes == CoreGradeOutcomes \cup CoreClassifyOutcomes

---------------------------------------------------------------------------
(* Specifications.                                                         *)

\* Requests of every endpoint in flight together.
Next ==
    \E r \in Requests :
        \/ Arrive(r, CoreInputs)
        \/ Start(r)
        \/ ReadDone(r)
        \/ ProviderReturns(r, CoreOutcomes)

Spec == Init /\ [][Next]_vars

\* One grading request, every request body and every reply.
NextGrade ==
    \/ Arrive(1, GradeInputs)
    \/ Start(1)
    \/ ProviderReturns(1, GradeOutcomes)

SpecGrade == Init /\ [][NextGrade]_vars

\* One classification request, every provider body.
NextClassify ==
    \/ Arrive(1, ClassifyInputs)
    \/ Start(1)
    \/ ReadDone(1)
    \/ ProviderReturns(1, ClassifyOutcomes)

SpecClassify == Init /\ [][NextClassify]_vars

\* One classification request, every upload.
NextUpload ==
    \/ Arrive(1, UploadInputs)
    \/ Start(1)
    \/ ReadDone(1)
    \/ ProviderReturns(1, CoreClassifyOutcomes)

SpecUpload == Init /\ [][NextUpload]_vars

---------------------------------------------------------------------------
(* Claims about the grading endpoints (checked under SpecGrade).           *)

Done(r) == pc[r] = "done"

\* A body that lacks target_word or image: the key is absent, null or "".
LacksField(data) ==
    \E k \in {"target_word", "image"} :
        k \notin DOMAIN data.v \/ data.v[k] \in {None, Str(<<>>)}

\* The reply of request r is a str that json.loads rejects.
ReplyIsInvalidJson(r) ==
    /\ reply[r].kind = "message"
    /\ IsStr(reply[r].content)
    /\ ~JsonLoads(reply[r].content.v).ok

\* C1: a grading request whose body lacks target_word or image is answered
\* 400, and the model is never invoked for it: no call is counted, nothing
\* is sent, and the handler never stands in a provider call.
C1_MissingFieldIs400 ==
    \A r \in Requests :
        (req[r].endpoint \in GradeEndpoints /\ LacksField(req[r].data)) =>
            /\ calls[r] = 0
            /\ sent[r] = None
            /\ pc[r] \in {"ready", "done"}
            /\ Done(r) => resp[r].status = 400 /\ resp[r].body = None

C1_Witness ==
    \E r \in Requests :
        /\ req[r].endpoint = "kanji.grade_hiragana"
        /\ "target_word" \in DOMAIN req[r].data.v
        /\ Truthy(req[r].data.v["target_word"])
        /\ Get(req[r].data, "image") = Str(<<>>)
        /\ Done(r)
        /\ resp[r].status = 400

\* C2: on each grading endpoint of kanji.py, a reply that is not valid JSON
\* ends the request with the 500 "invalid JSON" error, after exactly one
\* call of the model and with no body.
C2_InvalidJsonIs500 ==
    \A r \in Requests :
        (req[r].endpoint \in KanjiEndpoints /\ Done(r) /\ ReplyIsInvalidJson(r)) =>
            /\ resp[r] = HTTPException(500, "Model reutrned invalid JSON")
            /\ resp[r].body = None
            /\ calls[r] = 1

C2_Witness ==
    \E r \in Requests :
        /\ req[r].endpoint = "kanji.grade_katakana"
        /\ Done(r)
        /\ reply[r] = Message(Str(<<"Sure!">>))
        /\ resp[r].status = 500
        /\ resp[r].detail = "Model reutrned invalid JSON"

\* The four keys of the scenario's reply.
FourKeys == {"correct", "kanji_correct", "kanji_detected", "reason"}
PronunciationKeys == {"pronouce_in_romanji", "pronouce_in_hiragana"}

\* Request r is a /grade-kanji request answered with the four-key object
\* written with value variant v.
FourKeyReply(r, v) ==
    /\ Done(r)
    /\ ~LacksField(req[r].data)
    /\ reply[r] = Message(Str(ObjectText(FourKeys, v)))

\* C3 as claimed: the response to the four-key reply is that object plus the
\* single key similarity with value null.
C3_OnlySimilarityAdded ==
    \A r \in Requests : \A v \in {1, 2} :
        (req[r].endpoint \in {"kanji.grade_kanji", "yah.grade_kanji"} /\ FourKeyReply(r, v)) =>
            resp[r] = Ok200(Dict([k \in FourKeys \cup {"similarity"} |->
                                    IF k \in FourKeys THEN ValueOf(k, v) ELSE None]))

\* C3 amended: kanji.py answers the four-key reply with the same four values
\* plus three keys that are null: similarity and the two pronunciation keys;
\* yah.py answers with the reply whole under the single key result.
C3_ThreeNullKeysAdded ==
    \A r \in Requests : \A v \in {1, 2} :
        /\ (req[r].endpoint = "kanji.grade_kanji" /\ FourKeyReply(r, v)) =>
              resp[r] = Ok200(Dict([k \in FourKeys \cup PronunciationKeys \cup {"similarity"} |->
                                      IF k \in FourKeys THEN ValueOf(k, v) ELSE None]))
        /\ (req[r].endpoint = "yah.grade_kanji" /\ FourKeyReply(r, v)) =>
              /\ resp[r].status = 200
              /\ DOMAIN resp[r].body.v = {"result"}
              /\ resp[r].body.v["result"].v["content"] = reply[r].content

C3_Witness ==
    \E r \in Requests :
        /\ req[r].endpoint = "kanji.grade_kanji"
        /\ FourKeyReply(r, 2)
        /\ resp[r].status = 200
        /\ resp[r].body.v["kanji_detected"] = Str(<<"ki">>)
        /\ resp[r].body.v["pronouce_in_romanji"] = None

\* The keys of the expected shape of each endpoint's reply.
ShapeKeys(ep) == ResponseKeys(ep) \ (PronunciationKeys \cup {"similarity"})

\* C4: a grading endpoint of kanji.py answers 200 only when the reply parses
\* as a JSON object that carries correct, the detected glyph, the expected
\* glyph and reason.
C4_SuccessOnlyForExpectedShape ==
    \A r \in Requests :
        (req[r].endpoint \in KanjiEndpoints /\ Done(r) /\ resp[r].status = 200) =>
            /\ IsStr(reply[r].content)
            /\ JsonLoads(reply[r].content.v).ok
            /\ IsDict(JsonLoads(reply[r].content.v).val)
            /\ ShapeKeys(req[r].endpoint) \subseteq DOMAIN JsonLoads(reply[r].content.v).val.v

---------------------------------------------------------------------------
(* Claims about the classification endpoints (checked under SpecClassify   *)
(* and SpecUpload).                                                        *)

\* The provider answered request r with status 200 and a JSON body.
Answered200(r) ==
    /\ req[r].endpoint \in ClassifyEndpoints
    /\ Done(r)
    /\ reply[r].kind = "http" /\ reply[r].status = 200 /\ reply[r].isjson

\* The body is an object whose first choice is an object with a message
\* object that carries a content.
HasMessageContent(body) ==
    /\ IsDict(body)
    /\ "choices" \in DOMAIN body.v
    /\ IsList(body.v["choices"])
    /\ Len(body.v["choices"].v) >= 1
    /\ IsDict(body.v["choices"].v[1])
    /\ "message" \in DOMAIN body.v["choices"].v[1].v
    /\ IsDict(body.v["choices"].v[1].v["message"])
    /\ "content" \in DOMAIN body.v["choices"].v[1].v["message"].v

\* The first choice's message content.
MessageContent(body) == body.v["choices"].v[1].v["message"].v["content"]

\* The label of the response of request r.
LabelOf(r) == resp[r].body.v["label"]

\* The indices of the parts of a text type.
TextPartsOf(parts) ==
    {i \in 1..Len(parts) :
        /\ IsDict(parts[i])
        /\ "type" \in DOMAIN parts[i].v
        /\ parts[i].v["type"] \in {Str(<<"text">>), Str(<<"output_text">>)}}

Least(S) == CHOOSE i \in S : \A j \in S : i <= j

\* C5: with a list content whose parts are objects, the label is the text of
\* the first part, in list order, of type "text" or "output_text", whatever
\* parts precede it, and null when there is no such part.
C5_FirstTextPartIsLabel ==
    \A r \in Requests :
        (/\ Answered200(r)
         /\ HasMessageContent(reply[r].content)
         /\ IsList(MessageContent(reply[r].content))
         /\ \A i \in 1..Len(MessageContent(reply[r].content).v) :
                IsDict(MessageContent(reply[r].content).v[i])) =>
            LET parts == MessageContent(reply[r].content).v
            IN  /\ resp[r].status = 200
                /\ LabelOf(r) = IF TextPartsOf(parts) = {} THEN None
                                ELSE Get(parts[Least(TextPartsOf(parts))], "text")

C5_Witness ==
    \E r \in Requests :
        /\ Answered200(r)
        /\ reply[r].content = ChatBody(List(<<Part("image_url", "dog"), Part("output_text", "cat")>>))
        /\ LabelOf(r) = Str(<<"cat">>)

\* C6: with a string content, the label neither starts nor ends with
\* whitespace or a double quote.
C6_LabelHasCleanEnds ==
    \A r \in Requests :
        (/\ Answered200(r)
         /\ HasMessageContent(reply[r].content)
         /\ IsStr(MessageContent(reply[r].content))) =>
            /\ IsStr(LabelOf(r))
            /\ LabelOf(r).v # <<>> =>
                  /\ LabelOf(r).v[1] \notin Whitespace \cup DoubleQuote
                  /\ LabelOf(r).v[Len(LabelOf(r).v)] \notin Whitespace \cup DoubleQuote

\* The body has no choices: the key is absent, or the list is empty.
NoChoices(body) ==
    IsDict(body) /\ ("choices" \notin DOMAIN body.v \/ body.v["choices"] = List(<<>>))

\* C7: once the provider has answered 200 with a JSON body, the response is
\* a 200 carrying that body as vllm_raw, whatever its shape; the label is
\* null when there are no choices or the extraction raised.
C7_ExtractionNeverFails ==
    \A r \in Requests :
        Answered200(r) =>
            /\ resp[r].status = 200
            /\ DOMAIN resp[r].body.v = {"vllm_raw", "label"}
            /\ resp[r].body.v["vllm_raw"] = reply[r].content
            /\ (NoChoices(reply[r].content) \/ ExtractRaw(reply[r].content).exc) =>
                  LabelOf(r) = None

C7_Witness ==
    \E r \in Requests :
        /\ Answered200(r)
        /\ reply[r].content = Dict([choices |-> List(<<Str(<<"a">>)>>)])
        /\ ExtractRaw(reply[r].content).exc
        /\ resp[r].status = 200
        /\ LabelOf(r) = None

\* RFC 4648 base64: alphabet characters in groups of four, the last group
\* padded with one or two "=".
IsValidBase64(s) ==
    /\ Len(s) % 4 = 0
    /\ \A i \in 1..Len(s) :
        \/ IsB64Char(s[i])
        \/ /\ s[i] = B64Pad
           /\ i > Len(s) - 2
           /\ \A j \in i..Len(s) : s[j] = B64Pad

\* C8: a /classify request with neither file nor image_base64, or with an
\* image_base64 that is not valid base64, is answered 400 and the provider
\* is never called for it.
C8_BadUploadIs400 ==
    \A r \in Requests :
        LET file == Get(req[r].data, "file")
            payload == Get(req[r].data, "payload")
        IN  (/\ req[r].endpoint = "yah.classify"
             /\ file = None
             /\ payload = None \/ ~IsValidBase64(Get(payload, "image_base64").v)) =>
                /\ calls[r] = 0
                /\ Done(r) => resp[r].status = 400

\* The data URL (or URL) of the image part of what request r sent.
SentUrl(r) ==
    sent[r].v["messages"].v[1].v["content"].v[1].v["image_url"].v["url"]

Prompts == {ClassifyPrompt, Str(<<"Classify this image.">>), Str(<<>>)}
Temperatures == {Num(0), Num(1)}

\* C10: the payload sent to the provider has exactly two parts, the image
\* part then the text part "Classify this image.", and temperature 0; it is
\* the payload call_vllm_chat_completion builds for that data URL whatever
\* prompt and temperature it is passed.
C10_PayloadIgnoresPrompt ==
    \A r \in Requests :
        (req[r].endpoint \in ClassifyEndpoints /\ calls[r] > 0) =>
            /\ DOMAIN sent[r].v = {"model", "messages", "temperature"}
            /\ sent[r].v["temperature"] = Num(0)
            /\ sent[r].v["model"] = MODEL_NAME
            /\ Len(sent[r].v["messages"].v) = 1
            /\ sent[r].v["messages"].v[1].v["content"] =
                  List(<<Dict([type |-> Str(<<"image_url">>),
                               image_url |-> Dict([url |-> SentUrl(r)])]),
                         Dict([type |-> Str(<<"text">>),
                               text |-> Str(<<"Classify this image.">>)])>>)
            /\ req[r].endpoint = "yah.classify_url" =>
                  SentUrl(r) = Get(req[r].data, "image_url")
            /\ \A p \in Prompts : \A t \in Temperatures :
                  VllmPayload(SentUrl(r), p, t) = sent[r]

C10_Witness ==
    \E r \in Requests :
        /\ req[r].endpoint = "yah.classify"
        /\ Get(req[r].data, "file") = File(Str(<<"scan">>), <<137, 80, 78>>)
        /\ calls[r] = 1
        /\ SentUrl(r) = Str(<<"data:", "image/", "png", ";base64,", "i", "V", "B", "O">>)

---------------------------------------------------------------------------
(* Claim about concurrent requests (checked under Spec).                   *)

\* C9: the provider call is where a handler is suspended, and while one
\* request waits on that call every other request in flight that is ready
\* to run can be resumed by the event loop.
C9_ProviderCallDoesNotBlock ==
    \A r \in Requests : \A q \in Requests \ {r} :
        (pc[r] = "provider" /\ pc[q] \in {"ready", "reading"}) =>
            ENABLED (Start(q) \/ ReadDone(q))

====
